---- MODULE Spec2Model ----
(***************************************************************************)
(* Model of src/pipeline.py: the incremental localization pipeline.        *)
(*                                                                         *)
(* Texts (catalog texts, translations, glossary terms) are sequences of    *)
(* one-character strings, so that the regular expressions and the literal  *)
(* str.replace calls of the program are computed character by character.   *)
(* Catalog keys and store keys are strings; the store is a function from   *)
(* a finite set of keys to texts (a flat JSON object).                     *)
(***************************************************************************)
EXTENDS Integers, Sequences, FiniteSets, TLC

VARIABLES
    source_data,        \* the catalog en.json: sequence of <<key, text>>, keys distinct
    glossary_csv,       \* the rows of glossary.csv: sequence of <<source, target>>
    GLOSSARY,           \* the glossary dict: sequence of <<source, target>>, sources distinct
    fr_json,            \* the file output/fr.json on disk: [exists, data], data a store
    existing_fr,        \* the in-memory store of the running process
    keys_to_translate,  \* the dirty keys not yet processed, in iteration order
    pc,                 \* position of the process in the script
    key,                \* loop variable: the dirty key being processed
    en_text,            \* loop variable: its source text
    masked_text,        \* mask_placeholders(en_text)[0]
    mapping,            \* mask_placeholders(en_text)[1]: sequence of <<token, placeholder>>
    masked_translation, \* the translator's output, then the glossary's output
    final_text,         \* restore_placeholders(masked_translation, mapping)
    error,              \* the exception that ended the run, NoError when none
    run,                \* number of the current run (1 is the first)
    h_loaded,           \* history: the store as loaded at the start of this run
    h_dirty,            \* history: the dirty keys computed at the start of this run
    h_calls,            \* history: the keys llm_translate was called for in this run
    h_writes,           \* history: number of writes of fr.json in this run
    h_prev_ok,          \* history: the previous run ended successfully
    h_file,             \* history: fr.json as it was when this run started
    h_before,           \* history: the in-memory store when the current key was taken
    h_done,             \* history: the keys merged into the store in this run, in order
    h_raw               \* history: what llm_translate returned for the current key

vars == <<source_data, glossary_csv, GLOSSARY, fr_json, existing_fr, keys_to_translate, pc, key,
          en_text, masked_text, mapping, masked_translation, final_text, error, run,
          h_loaded, h_dirty, h_calls, h_writes, h_prev_ok, h_file, h_before, h_done,
          h_raw>>

----------------------------------------------------------------------------
(* Bounds of the model *)

MaxChunks == 4      \* texts of the Placeholder Guard specification: chunks per text
MaxKeys == 2        \* entries of a catalog
MaxRuns == 2        \* runs of the pipeline in one behaviour

----------------------------------------------------------------------------
(* Texts *)

EmptyText == << >>

Digit == {"0", "1", "2", "3", "4", "5", "6", "7", "8", "9"}

DigitChar(d) ==
    CASE d = 0 -> "0" [] d = 1 -> "1" [] d = 2 -> "2" [] d = 3 -> "3" [] d = 4 -> "4"
      [] d = 5 -> "5" [] d = 6 -> "6" [] d = 7 -> "7" [] d = 8 -> "8" [] d = 9 -> "9"

RECURSIVE Decimal(_)
\* str(n) for a natural number n, as in the f-string f"<VAR{index}>"
Decimal(n) ==
    IF n < 10 THEN <<DigitChar(n)>>
    ELSE Decimal(n \div 10) \o <<DigitChar(n % 10)>>

\* text[i:] starts with pat (i is a 1-based position)
StartsWithAt(text, i, pat) ==
    /\ i + Len(pat) - 1 <= Len(text)
    /\ \A j \in 1..Len(pat) : text[i + j - 1] = pat[j]

\* pat in text
Contains(text, pat) ==
    \E i \in 1..(Len(text) + 1) : StartsWithAt(text, i, pat)

RECURSIVE ReplaceFrom(_, _, _, _)
ReplaceFrom(text, i, old, new) ==
    IF i > Len(text) THEN EmptyText
    ELSE IF StartsWithAt(text, i, old)
         THEN new \o ReplaceFrom(text, i + Len(old), old, new)
         ELSE <<text[i]>> \o ReplaceFrom(text, i + 1, old, new)

RECURSIVE Interleave(_, _, _)
Interleave(text, i, new) ==
    IF i > Len(text) THEN new
    ELSE new \o <<text[i]>> \o Interleave(text, i + 1, new)

\* Python's text.replace(old, new): every non-overlapping occurrence, left to
\* right; an empty old matches before every character and at the end.
Replace(text, old, new) ==
    IF old = EmptyText THEN Interleave(text, 1, new)
    ELSE ReplaceFrom(text, 1, old, new)

----------------------------------------------------------------------------
(* 5. Placeholder handling *)

RECURSIVE CloseBrace(_, _)
\* position of the first "}" at or after i, 0 when there is none
CloseBrace(text, i) ==
    IF i > Len(text) THEN 0
    ELSE IF text[i] = "}" THEN i
    ELSE CloseBrace(text, i + 1)

\* PLACEHOLDER_PATTERN = \{[^}]+\} matched at position i: the position of the
\* closing brace, 0 when the pattern does not match at i
PLACEHOLDER_PATTERN(text, i) ==
    IF i <= Len(text) /\ text[i] = "{"
    THEN LET j == CloseBrace(text, i + 1)
         IN  IF j >= i + 2 THEN j ELSE 0
    ELSE 0

RECURSIVE FindallFrom(_, _)
FindallFrom(text, i) ==
    IF i > Len(text) THEN << >>
    ELSE LET j == PLACEHOLDER_PATTERN(text, i)
         IN  IF j > 0
             THEN <<SubSeq(text, i, j)>> \o FindallFrom(text, j + 1)
             ELSE FindallFrom(text, i + 1)

\* PLACEHOLDER_PATTERN.findall(text): the matches, left to right, repeats kept
Findall(text) == FindallFrom(text, 1)

\* f"<VAR{index}>"
Token(index) == <<"<", "V", "A", "R">> \o Decimal(index) \o <<">">>

RECURSIVE MaskLoop(_, _, _, _)
\* the loop of mask_placeholders from the index-th match on; mapping is the
\* dict in insertion order (the tokens are distinct, so no entry is overwritten)
MaskLoop(placeholders, index, masked, map) ==
    IF index > Len(placeholders) THEN [masked_text |-> masked, mapping |-> map]
    ELSE MaskLoop(placeholders, index + 1,
                  Replace(masked, placeholders[index], Token(index)),
                  Append(map, <<Token(index), placeholders[index]>>))

mask_placeholders(text) == MaskLoop(Findall(text), 1, text, << >>)

RECURSIVE RestoreLoop(_, _, _)
RestoreLoop(text, map, i) ==
    IF i > Len(map) THEN text
    ELSE RestoreLoop(Replace(text, map[i][1], map[i][2]), map, i + 1)

restore_placeholders(text, map) == RestoreLoop(text, map, 1)

RECURSIVE DigitsEnd(_, _)
\* position of the last digit of the run of digits starting at i (i - 1 when
\* text[i] is no digit)
DigitsEnd(text, i) ==
    IF i <= Len(text) /\ text[i] \in Digit THEN DigitsEnd(text, i + 1) ELSE i - 1

\* <VAR\d+> matched at position i: the position of ">", 0 when no match
TokenPattern(text, i) ==
    IF StartsWithAt(text, i, <<"<", "V", "A", "R">>)
    THEN LET e == DigitsEnd(text, i + 4)
         IN  IF e >= i + 4 /\ e + 1 <= Len(text) /\ text[e + 1] = ">" THEN e + 1 ELSE 0
    ELSE 0

\* set(re.findall(r"<VAR\d+>", text)); a token holds one "<", at its start, so
\* no match overlaps another and every matching position is a match of findall
extract_placeholders(text) ==
    {SubSeq(text, i, TokenPattern(text, i)) :
        i \in {p \in 1..Len(text) : TokenPattern(text, p) > 0}}

----------------------------------------------------------------------------
(* 4. Glossary *)

\* position of the entry of the dict d (a sequence of <<key, value>>) for k, 0 when none
RECURSIVE DictIndex(_, _, _)
DictIndex(d, k, i) ==
    IF i > Len(d) THEN 0
    ELSE IF d[i][1] = k THEN i
    ELSE DictIndex(d, k, i + 1)

\* mutant of DictSet: a key listed again keeps the value it had
DictSetFirstWins(d, k, v) ==
    IF DictIndex(d, k, 1) = 0 THEN Append(d, <<k, v>>) ELSE d

\* d[k] = v on a dict in insertion order: a new key goes last, an existing key
\* keeps its place and gets the new value
DictSet(d, k, v) ==
    LET i == DictIndex(d, k, 1)
    IN  IF i = 0 THEN Append(d, <<k, v>>)
        ELSE [d EXCEPT ![i] = <<k, v>>]

RECURSIVE LoadRows(_, _, _)
LoadRows(rows, i, glossary) ==
    IF i > Len(rows) THEN glossary
    ELSE LoadRows(rows, i + 1, DictSet(glossary, rows[i][1], rows[i][2]))

\* load_glossary on a glossary.csv holding the rows <<source, target>>; a
\* missing file gives the empty dict, as a file without rows does
load_glossary(rows) == LoadRows(rows, 1, << >>)

RECURSIVE GlossaryLoop(_, _, _)
GlossaryLoop(text, glossary, i) ==
    IF i > Len(glossary) THEN text
    ELSE GlossaryLoop(Replace(text, glossary[i][1], glossary[i][2]), glossary, i + 1)

apply_glossary(text, glossary) == GlossaryLoop(text, glossary, 1)

----------------------------------------------------------------------------
(* 3. and 6. The store and the delta *)

\* f"__source__:{key}"
Marker(k) == "__source__:" \o k

\* the value of dict.get for a missing key; no text is equal to it
None == <<"None">>

EmptyStore == [k \in {} |-> EmptyText]

\* existing_fr.get(k)
Get(store, k) == IF k \in DOMAIN store THEN store[k] ELSE None

\* existing_fr[k] = v
Put(store, k, v) == [x \in (DOMAIN store) \cup {k} |-> IF x = k THEN v ELSE store[x]]

\* load_existing_translation(OUTPUT_FILE)
load_existing_translation(file) == IF file.exists THEN file.data ELSE EmptyStore

\* mutant of NeedsTranslation: a missing snapshot is not taken for a change
NeedsTranslationSnapshotPresent(entry, existing) ==
    \/ entry[1] \notin DOMAIN existing
    \/ /\ Marker(entry[1]) \in DOMAIN existing
       /\ existing[Marker(entry[1])] # entry[2]

\* the test of get_keys_to_translate on one catalog entry <<key, en_text>>
NeedsTranslation(entry, existing) ==
    \/ entry[1] \notin DOMAIN existing
    \/ Get(existing, Marker(entry[1])) # entry[2]

\* mutant of get_keys_to_translate: every catalog key is translated again
get_keys_to_translateAll(source_en, existing) == source_en

\* get_keys_to_translate: the dict keys_to_translate, in the catalog's order
get_keys_to_translate(source_en, existing) ==
    SelectSeq(source_en, LAMBDA entry : NeedsTranslation(entry, existing))

----------------------------------------------------------------------------
(* 7. The translation service *)

Whitespace == {" "}

RECURSIVE LStrip(_)
LStrip(text) ==
    IF text # EmptyText /\ Head(text) \in Whitespace THEN LStrip(Tail(text)) ELSE text

RECURSIVE RStrip(_)
RStrip(text) ==
    IF text # EmptyText /\ text[Len(text)] \in Whitespace
    THEN RStrip(SubSeq(text, 1, Len(text) - 1))
    ELSE text

\* str.strip()
Strip(text) == LStrip(RStrip(text))

----------------------------------------------------------------------------
(* Inputs: the files the program reads and the answers of the translator *)

RECURSIVE Concat(_)
\* the concatenation of a sequence of texts
Concat(chunks) ==
    IF chunks = << >> THEN EmptyText ELSE Head(chunks) \o Concat(Tail(chunks))

\* sequences over S of length at most n
SeqsUpTo(S, n) == UNION {[1..m -> S] : m \in 0..n}

PlaceholderA == <<"{", "a", "}">>

\* source texts of a catalog: one placeholder, a placeholder that is the tail
\* of a later one ("{a}{{a}"), a text that already holds a token ("<VAR2>{a}")
CatalogTexts ==
    { PlaceholderA,
      PlaceholderA \o <<"{">> \o PlaceholderA,
      Token(2) \o PlaceholderA }

CatalogKeys == {"a", "b", Marker("a")}

\* en.json: a JSON object, so the keys are distinct; its order is the file's
Catalogs ==
    {c \in SeqsUpTo(CatalogKeys \X CatalogTexts, MaxKeys) :
        \A i, j \in 1..Len(c) : i # j => c[i][1] # c[j][1]}

GlossaryFiles ==
    { << >>,
      << <<<<"b">>, <<"a">>>> >>,
      << <<<<"1">>, <<"2">>>> >> }

\* keys and values of a fr.json left by earlier runs or edited by hand
PriorKeys == {"a", Marker("a"), "z"}

PriorTexts == {PlaceholderA}

PriorStores == UNION {[K -> PriorTexts] : K \in SUBSET PriorKeys}

PriorFiles ==
    {[exists |-> FALSE, data |-> EmptyStore]}
        \cup {[exists |-> TRUE, data |-> d] : d \in PriorStores}

\* message.content of a response for the masked text: the text unchanged, or
\* one with tokens dropped, renamed, repeated or added
Responses(masked) ==
    { masked,
      <<"b">>,
      Token(1),
      Token(2) \o <<" ">>,
      Token(1) \o Token(2) \o Token(1) }

----------------------------------------------------------------------------
(* The script *)

NoError == [type |-> "None"]

DirtyKeys(entries) == {entries[i][1] : i \in 1..Len(entries)}

Init ==
    /\ source_data \in Catalogs
    /\ glossary_csv \in GlossaryFiles
    /\ GLOSSARY = load_glossary(glossary_csv)
    /\ fr_json \in PriorFiles
    /\ existing_fr = EmptyStore
    /\ keys_to_translate = << >>
    /\ pc = "load"
    /\ key = ""
    /\ en_text = EmptyText
    /\ masked_text = EmptyText
    /\ mapping = << >>
    /\ masked_translation = EmptyText
    /\ final_text = EmptyText
    /\ error = NoError
    /\ run = 1
    /\ h_loaded = EmptyStore
    /\ h_dirty = {}
    /\ h_calls = << >>
    /\ h_writes = 0
    /\ h_prev_ok = FALSE
    /\ h_file = fr_json
    /\ h_before = EmptyStore
    /\ h_done = << >>
    /\ h_raw = EmptyText

\* lines 52 and 129: load fr.json and compute the delta
Load ==
    /\ pc = "load"
    /\ existing_fr' = load_existing_translation(fr_json)
    /\ keys_to_translate' = get_keys_to_translate(source_data, existing_fr')
    /\ h_loaded' = existing_fr'
    /\ h_dirty' = DirtyKeys(keys_to_translate')
    /\ pc' = "loop"
    /\ UNCHANGED <<source_data, glossary_csv, GLOSSARY,
                   fr_json, key, en_text, masked_text, mapping,
                   masked_translation, final_text, error, run, h_calls, h_writes,
                   h_prev_ok,
                   h_file, h_before, h_done, h_raw>>

\* lines 166-168: take the next dirty key and mask its source text
Mask ==
    /\ pc = "loop"
    /\ keys_to_translate # << >>
    /\ key' = Head(keys_to_translate)[1]
    /\ en_text' = Head(keys_to_translate)[2]
    /\ LET m == mask_placeholders(en_text')
       IN  /\ masked_text' = m.masked_text
           /\ mapping' = m.mapping
    /\ pc' = "translate"
    /\ h_before' = existing_fr
    /\ UNCHANGED <<source_data, glossary_csv, GLOSSARY,
                   fr_json, existing_fr, keys_to_translate,
                   masked_translation, final_text, error, run, h_loaded, h_dirty,
                   h_calls, h_writes, h_prev_ok,
                   h_file, h_done, h_raw>>

\* line 171, llm_translate returning: the stripped content of the response
Translate ==
    /\ pc = "translate"
    /\ \E content \in Responses(masked_text) :
          /\ masked_translation' = Strip(content)
          /\ h_raw' = Strip(content)
    /\ h_calls' = Append(h_calls, key)
    /\ pc' = "glossary"
    /\ UNCHANGED <<source_data, glossary_csv, GLOSSARY,
                   fr_json, existing_fr, keys_to_translate, key,
                   en_text, masked_text, mapping, final_text, error, run, h_loaded,
                   h_dirty, h_writes, h_prev_ok,
                   h_file, h_before, h_done>>

\* mutant of TranslateFails: the failure discards what the run merged in memory
TranslateFailsRollback ==
    /\ pc = "translate"
    /\ h_calls' = Append(h_calls, key)
    /\ error' = [type |-> "TranslationServiceError"]
    /\ existing_fr' = h_loaded
    /\ pc' = "failed"
    /\ UNCHANGED <<source_data, glossary_csv, GLOSSARY, fr_json, keys_to_translate, key,
                   en_text, masked_text, mapping, masked_translation, final_text, run,
                   h_loaded, h_dirty, h_writes, h_prev_ok, h_file, h_before, h_done,
                   h_raw>>

\* line 171, llm_translate raising (lines 151-160): the exception is not caught
TranslateFails ==
    /\ pc = "translate"
    /\ h_calls' = Append(h_calls, key)
    /\ error' = [type |-> "TranslationServiceError"]
    /\ pc' = "failed"
    /\ UNCHANGED <<source_data, glossary_csv, GLOSSARY,
                   fr_json, existing_fr, keys_to_translate, key,
                   en_text, masked_text, mapping, masked_translation, final_text, run,
                   h_loaded, h_dirty, h_writes, h_prev_ok,
                   h_file, h_before, h_done, h_raw>>

\* mutant of ApplyGlossary: the glossary step is passed over
ApplyGlossarySkipped ==
    /\ pc = "glossary"
    /\ pc' = "qa"
    /\ UNCHANGED <<source_data, glossary_csv, GLOSSARY,
                   fr_json, existing_fr, keys_to_translate, key,
                   en_text, masked_text, mapping, masked_translation, final_text,
                   error, run, h_loaded, h_dirty, h_calls, h_writes, h_prev_ok,
                   h_file, h_before, h_done, h_raw>>

\* line 172
ApplyGlossary ==
    /\ pc = "glossary"
    /\ masked_translation' = apply_glossary(masked_translation, GLOSSARY)
    /\ pc' = "qa"
    /\ UNCHANGED <<source_data, glossary_csv, GLOSSARY,
                   fr_json, existing_fr, keys_to_translate, key,
                   en_text, masked_text, mapping, final_text, error, run, h_loaded,
                   h_dirty, h_calls, h_writes, h_prev_ok,
                   h_file, h_before, h_done, h_raw>>

\* mutant of QAPasses: a translation may drop tokens, it may not add any
QAPassesSubset(src_vars, tgt_vars) == tgt_vars \subseteq src_vars

\* line 178: the QA test passes
QAPasses(src_vars, tgt_vars) == src_vars = tgt_vars

\* line 179: the ValueError and what its message holds
QAError(k, src_vars, tgt_vars) == [type |-> "ValueError", key |-> k]

\* lines 175-179
QA ==
    /\ pc = "qa"
    /\ LET src_vars == extract_placeholders(masked_text)
           tgt_vars == extract_placeholders(masked_translation)
       IN  IF QAPasses(src_vars, tgt_vars)
           THEN /\ pc' = "restore"
                /\ error' = error
           ELSE /\ pc' = "failed"
                /\ error' = QAError(key, src_vars, tgt_vars)
    /\ UNCHANGED <<source_data, glossary_csv, GLOSSARY,
                   fr_json, existing_fr, keys_to_translate, key,
                   en_text, masked_text, mapping, masked_translation, final_text, run,
                   h_loaded, h_dirty, h_calls, h_writes, h_prev_ok,
                   h_file, h_before, h_done, h_raw>>

\* line 182
Restore ==
    /\ pc = "restore"
    /\ final_text' = restore_placeholders(masked_translation, mapping)
    /\ pc' = "save"
    /\ UNCHANGED <<source_data, glossary_csv, GLOSSARY,
                   fr_json, existing_fr, keys_to_translate, key,
                   en_text, masked_text, mapping, masked_translation, error, run,
                   h_loaded, h_dirty, h_calls, h_writes, h_prev_ok,
                   h_file, h_before, h_done, h_raw>>

\* mutant of SaveResult: the snapshot entry gets the translation
SaveResultTranslationAsSnapshot(store, k, translation, source) ==
    Put(Put(store, k, translation), Marker(k), translation)

\* lines 185-186: the two assignments, in the code's order
SaveResult(store, k, translation, source) ==
    Put(Put(store, k, translation), Marker(k), source)

\* mutant of Save: fr.json is written after every merged key
SaveFlushing ==
    /\ pc = "save"
    /\ existing_fr' = SaveResult(existing_fr, key, final_text, en_text)
    /\ keys_to_translate' = Tail(keys_to_translate)
    /\ fr_json' = [exists |-> TRUE, data |-> existing_fr']
    /\ h_writes' = h_writes + 1
    /\ h_done' = Append(h_done, key)
    /\ pc' = "loop"
    /\ UNCHANGED <<source_data, glossary_csv, GLOSSARY,
                   key, en_text, masked_text, mapping,
                   masked_translation, final_text, error, run, h_loaded, h_dirty,
                   h_calls, h_prev_ok, h_file, h_before, h_raw>>

\* lines 185-186, and the loop going on to the next dirty key
Save ==
    /\ pc = "save"
    /\ existing_fr' = SaveResult(existing_fr, key, final_text, en_text)
    /\ keys_to_translate' = Tail(keys_to_translate)
    /\ pc' = "loop"
    /\ h_done' = Append(h_done, key)
    /\ UNCHANGED <<source_data, glossary_csv, GLOSSARY,
                   fr_json, key, en_text, masked_text, mapping,
                   masked_translation, final_text, error, run, h_loaded, h_dirty,
                   h_calls, h_writes, h_prev_ok,
                   h_file, h_before, h_raw>>

\* lines 194-197: the loop is over, fr.json is written; json.dump and
\* json.load give back a flat dict of strings as it was
Write ==
    /\ pc = "loop"
    /\ keys_to_translate = << >>
    /\ fr_json' = [exists |-> TRUE, data |-> existing_fr]
    /\ h_writes' = h_writes + 1
    /\ pc' = "done"
    /\ UNCHANGED <<source_data, glossary_csv, GLOSSARY,
                   existing_fr, keys_to_translate, key, en_text,
                   masked_text, mapping, masked_translation, final_text, error, run,
                   h_loaded, h_dirty, h_calls, h_prev_ok,
                   h_file, h_before, h_done, h_raw>>

\* the process has ended; the pipeline is started again on the same en.json
\* and glossary.csv and on the fr.json now on disk
Rerun ==
    /\ pc \in {"done", "failed"}
    /\ run < MaxRuns
    /\ run' = run + 1
    /\ h_prev_ok' = (pc = "done")
    /\ pc' = "load"
    /\ existing_fr' = EmptyStore
    /\ keys_to_translate' = << >>
    /\ key' = ""
    /\ en_text' = EmptyText
    /\ masked_text' = EmptyText
    /\ mapping' = << >>
    /\ masked_translation' = EmptyText
    /\ final_text' = EmptyText
    /\ error' = NoError
    /\ h_loaded' = EmptyStore
    /\ h_dirty' = {}
    /\ h_calls' = << >>
    /\ h_writes' = 0
    /\ h_file' = fr_json
    /\ h_before' = EmptyStore
    /\ h_done' = << >>
    /\ h_raw' = EmptyText
    /\ UNCHANGED <<source_data, glossary_csv, GLOSSARY,
                   fr_json>>

Next ==
    \/ Load
    \/ Mask
    \/ Translate
    \/ TranslateFails
    \/ ApplyGlossary
    \/ QA
    \/ Restore
    \/ Save
    \/ Write
    \/ Rerun

Spec == Init /\ [][Next]_vars

----------------------------------------------------------------------------
(* The Placeholder Guard alone: mask_placeholders, then restore_placeholders *)
(* on the masked text, for every text made of a few chunks                  *)

GuardChunks ==
    { <<"{">>, <<"}">>, <<"a">>, PlaceholderA, Token(1), Token(2) }

GuardTexts == {Concat(chunks) : chunks \in SeqsUpTo(GuardChunks, MaxChunks)}

GuardInit ==
    /\ source_data = << >>
    /\ glossary_csv = << >>
    /\ GLOSSARY = << >>
    /\ fr_json = [exists |-> FALSE, data |-> EmptyStore]
    /\ existing_fr = EmptyStore
    /\ keys_to_translate = << >>
    /\ pc = "guard"
    /\ key = ""
    /\ en_text \in GuardTexts
    /\ masked_text = EmptyText
    /\ mapping = << >>
    /\ masked_translation = EmptyText
    /\ final_text = EmptyText
    /\ error = NoError
    /\ run = 1
    /\ h_loaded = EmptyStore
    /\ h_dirty = {}
    /\ h_calls = << >>
    /\ h_writes = 0
    /\ h_prev_ok = FALSE
    /\ h_file = fr_json
    /\ h_before = EmptyStore
    /\ h_done = << >>
    /\ h_raw = EmptyText

\* masked_text, mapping = mask_placeholders(en_text)
GuardMask ==
    /\ pc = "guard"
    /\ LET m == mask_placeholders(en_text)
       IN  /\ masked_text' = m.masked_text
           /\ mapping' = m.mapping
    /\ pc' = "guard_masked"
    /\ UNCHANGED <<source_data, glossary_csv, GLOSSARY,
                   fr_json, existing_fr, keys_to_translate, key,
                   en_text, masked_translation, final_text, error, run, h_loaded,
                   h_dirty, h_calls, h_writes, h_prev_ok, h_file, h_before, h_done, h_raw>>

\* final_text = restore_placeholders(masked_text, mapping)
GuardRestore ==
    /\ pc = "guard_masked"
    /\ final_text' = restore_placeholders(masked_text, mapping)
    /\ pc' = "guard_restored"
    /\ UNCHANGED <<source_data, glossary_csv, GLOSSARY,
                   fr_json, existing_fr, keys_to_translate, key,
                   en_text, masked_text, mapping, masked_translation, error, run,
                   h_loaded, h_dirty, h_calls, h_writes, h_prev_ok, h_file, h_before,
                   h_done, h_raw>>

GuardNext ==
    \/ GuardMask
    \/ GuardRestore

SpecGuard == GuardInit /\ [][GuardNext]_vars

----------------------------------------------------------------------------
(* Properties *)

\* the elements of a sequence
Range(seq) == {seq[i] : i \in 1..Len(seq)}

\* the catalog keys, and the source text of a catalog key
SourceKeys == {source_data[i][1] : i \in 1..Len(source_data)}

SourceText(k) == (CHOOSE e \in Range(source_data) : e[1] = k)[2]

\* C5: placeholder round-trip. For every source text, with repeated
\* placeholders, placeholders that are substrings of one another and literal
\* "<VARk>" sequences in it, restore_placeholders(mask_placeholders(text))
\* is the text.
C5_RoundTrip ==
    pc = "guard_restored" => final_text = en_text

\* C6: token collapse and count. The masked text holds exactly as many
\* distinct tokens as the text has distinct placeholder matches, and no
\* occurrence of a placeholder is left in it.
C6_TokenCount ==
    pc \in {"guard_masked", "guard_restored"} =>
        /\ Cardinality(extract_placeholders(masked_text))
              = Cardinality(Range(Findall(en_text)))
        /\ \A p \in Range(Findall(en_text)) : ~Contains(masked_text, p)


\* the token sets the QA step compares
SrcVars == extract_placeholders(masked_text)

TgtVars == extract_placeholders(masked_translation)

\* the run was ended by the placeholder QA (line 179)
QAFailed == pc = "failed" /\ error.type = "ValueError"

\* C1: idempotence across runs. When a run has completed successfully, a
\* second run on the store it persisted, with the same catalog and the same
\* glossary, finds no dirty key and calls the translator for no key, for
\* every catalog, also one whose keys begin with "__source__:".
C1_Idempotence ==
    (run > 1 /\ h_prev_ok /\ pc # "load") => (h_dirty = {} /\ h_calls = << >>)

\* C2: delta correctness. get_keys_to_translate returns exactly the catalog
\* keys that have no translation entry in the store or whose snapshot entry
\* "__source__:k" is missing or differs from the source text; no other key,
\* and each with its current source text.
C2_DeltaCorrect ==
    pc \in {"loop", "translate", "glossary", "qa", "restore", "save", "done", "failed"} =>
        /\ \A k \in SourceKeys \cup (DOMAIN h_loaded) \cup h_dirty :
              k \in h_dirty <=>
                  /\ k \in SourceKeys
                  /\ \/ k \notin DOMAIN h_loaded
                     \/ Marker(k) \notin DOMAIN h_loaded
                     \/ h_loaded[Marker(k)] # SourceText(k)
        /\ \A e \in Range(keys_to_translate) : e \in Range(source_data)

\* a clean key and a key that is dirty by a differing snapshot, in one delta
C2_Witness ==
    /\ pc = "loop"
    /\ h_done = << >>
    /\ SourceKeys \ h_dirty # {}
    /\ \E k \in h_dirty : k \in DOMAIN h_loaded /\ Marker(k) \in DOMAIN h_loaded

\* what holds of the steps after QA and of a run ended by QA
QARejected ==
    /\ pc \in {"restore", "save"} => SrcVars = TgtVars
    /\ QAFailed =>
          /\ SrcVars # TgtVars
          /\ error.key = key
          /\ key \notin Range(h_done)
          /\ Get(existing_fr, key) = Get(h_before, key)
          /\ Get(existing_fr, Marker(key)) = Get(h_before, Marker(key))
          /\ fr_json = h_file

\* the QA step on unequal token sets raises and writes nothing
QARejects ==
    (pc = "qa" /\ SrcVars # TgtVars) =>
        /\ pc' = "failed"
        /\ error'.type = "ValueError"
        /\ existing_fr' = existing_fr
        /\ fr_json' = fr_json

\* C3: QA rejection. For a dirty key whose masked translation, after the
\* glossary, has another token set than its masked source (a token missing,
\* renamed or added), the QA step ends the run with the placeholder error and
\* writes nothing; the key never gets to the restore and save steps, and its
\* translation entry and snapshot entry in the store are as they were when
\* the key was taken.
C3_QARejection == []QARejected /\ [][QARejects]_vars

\* a rejected translation with a renamed or added token, for a key that had
\* a translation before
C3_Witness ==
    /\ QAFailed
    /\ TgtVars # {}
    /\ ~(TgtVars \subseteq SrcVars)
    /\ key \in DOMAIN existing_fr

\* C4: placeholders survive translation. For every key that passed QA and was
\* merged, every placeholder of its source text occurs in the translation
\* stored for it, whatever the translator returned.
C4_PlaceholdersSurvive ==
    (pc = "loop" /\ h_done # << >>) =>
        \A p \in Range(Findall(en_text)) : Contains(Get(existing_fr, key), p)

\* C7: snapshot invariant. After each dirty key has been processed, every
\* catalog key that is not waiting to be processed has a translation entry
\* and a snapshot entry equal to its source text, and so has every catalog key
\* in the store persisted by a successful run.
C7_SnapshotInvariant ==
    /\ pc = "loop" =>
          \A k \in SourceKeys \ DirtyKeys(keys_to_translate) :
              /\ k \in DOMAIN existing_fr
              /\ Get(existing_fr, Marker(k)) = SourceText(k)
    /\ pc = "done" =>
          \A k \in SourceKeys :
              /\ k \in DOMAIN fr_json.data
              /\ Get(fr_json.data, Marker(k)) = SourceText(k)

\* C8: preservation of prior entries. In a successful run every entry of the
\* loaded store that is not the translation or snapshot entry of a dirty key
\* is in the persisted store with the same value; a catalog key that is not
\* dirty keeps its translation and its snapshot; the keys of the store that
\* are not in the catalog (and are not the snapshot of a dirty key) stay.
C8_Preservation ==
    pc = "done" =>
        /\ \A k \in (DOMAIN h_loaded) \ (h_dirty \cup {Marker(d) : d \in h_dirty}) :
              Get(fr_json.data, k) = h_loaded[k]
        /\ \A k \in SourceKeys \ h_dirty :
              /\ Get(fr_json.data, k) = Get(h_loaded, k)
              /\ Get(fr_json.data, Marker(k)) = Get(h_loaded, Marker(k))
        /\ \A k \in (DOMAIN h_loaded) \ (SourceKeys \cup {Marker(d) : d \in h_dirty}) :
              Get(fr_json.data, k) = h_loaded[k]

\* C9: fail-fast persistence. fr.json is written at most once in a run, and
\* only when every dirty key has been translated, has passed QA and has been
\* merged; until then, and for good when a key fails QA, the file is as it
\* was when the run started, whatever was merged in memory before.
C9_FailFast ==
    /\ h_writes <= 1
    /\ h_writes = 1 =>
          /\ pc = "done"
          /\ keys_to_translate = << >>
          /\ Range(h_done) = h_dirty
          /\ Range(h_calls) = h_dirty
          /\ fr_json = [exists |-> TRUE, data |-> existing_fr]
    /\ h_writes = 0 => fr_json = h_file
    /\ pc = "failed" => (h_writes = 0 /\ fr_json = h_file)

\* a key fails QA after another key of the run was merged in memory
C9_Witness ==
    /\ QAFailed
    /\ h_done # << >>
    /\ existing_fr # h_loaded
    /\ fr_json = h_file

\* C10: QA diagnosability. The error raised on a token-set mismatch names the
\* offending key and carries the expected token set (of the masked source)
\* and the actual token set (of the masked translation).
C10_Diagnosable ==
    QAFailed =>
        /\ error.key = key
        /\ "expected" \in DOMAIN error
        /\ "actual" \in DOMAIN error
        /\ error.expected = SrcVars
        /\ error.actual = TgtVars


\* the run was ended by an exception of the translation call (line 171)
TranslationFailed == pc = "failed" /\ error.type = "TranslationServiceError"

\* C11: translator failure isolation. When the translation call fails for the
\* dirty key k, the run ends: k was called once and no key after it, fr.json
\* is not written, the in-memory store is as it was when k was taken (so k's
\* entries are unchanged and the entries written for the keys merged before
\* are all there, the last merged translation included).
C11_FailureIsolation ==
    TranslationFailed =>
        /\ h_calls = Append(h_done, key)
        /\ key \notin Range(h_done)
        /\ h_writes = 0
        /\ fr_json = h_file
        /\ existing_fr = h_before
        /\ \A d \in Range(h_done) :
              d \in DOMAIN existing_fr /\ Marker(d) \in DOMAIN existing_fr
        /\ h_done # << >> => existing_fr[h_done[Len(h_done)]] = final_text

\* the call fails for a key that has a translation, after another key of the
\* run was merged
C11_Witness ==
    /\ TranslationFailed
    /\ h_done # << >>
    /\ existing_fr # h_loaded
    /\ key \in DOMAIN existing_fr

----------------------------------------------------------------------------
(* The script on the catalog {"greeting": "Hello {name}, you have {count}   *)
(* items"} with a stub in the place of llm_translate                         *)

\* "Hello {name}, you have {count} items"
GreetingSource ==
    << "H", "e", "l", "l", "o", " ", "{", "n", "a", "m", "e", "}", ",", " ",
       "y", "o", "u", " ", "h", "a", "v", "e", " ", "{", "c", "o", "u", "n",
       "t", "}", " ", "i", "t", "e", "m", "s" >>

\* "Bonjour <VAR1>, vous avez <VAR2> articles"
GreetingReply ==
    << "B", "o", "n", "j", "o", "u", "r", " ", "<", "V", "A", "R", "1", ">",
       ",", " ", "v", "o", "u", "s", " ", "a", "v", "e", "z", " ", "<", "V",
       "A", "R", "2", ">", " ", "a", "r", "t", "i", "c", "l", "e", "s" >>

\* "Bonjour <VAR1>, vous avez articles": the reply that drops <VAR2>
GreetingReplyDropped ==
    << "B", "o", "n", "j", "o", "u", "r", " ", "<", "V", "A", "R", "1", ">",
       ",", " ", "v", "o", "u", "s", " ", "a", "v", "e", "z", " ", "a", "r",
       "t", "i", "c", "l", "e", "s" >>

\* what the stub answers: the reply, the reply between blanks, the reply
\* without <VAR2>, the masked text itself
StubResponses(masked) ==
    { GreetingReply,
      <<" ">> \o GreetingReply \o <<" ">>,
      GreetingReplyDropped,
      masked }

\* fr.json before the run: absent, an empty object, one with another key, one
\* with a translation of greeting made from another source text
ScenarioFiles ==
    { [exists |-> FALSE, data |-> EmptyStore],
      [exists |-> TRUE, data |-> EmptyStore],
      [exists |-> TRUE, data |-> [k \in {"z"} |-> PlaceholderA]],
      [exists |-> TRUE,
       data |-> [k \in {"greeting", Marker("greeting")} |-> PlaceholderA]] }

ScenarioInit ==
    /\ source_data = << <<"greeting", GreetingSource>> >>
    /\ glossary_csv \in GlossaryFiles
    /\ GLOSSARY = load_glossary(glossary_csv)
    /\ fr_json \in ScenarioFiles
    /\ existing_fr = EmptyStore
    /\ keys_to_translate = << >>
    /\ pc = "load"
    /\ key = ""
    /\ en_text = EmptyText
    /\ masked_text = EmptyText
    /\ mapping = << >>
    /\ masked_translation = EmptyText
    /\ final_text = EmptyText
    /\ error = NoError
    /\ run = 1
    /\ h_loaded = EmptyStore
    /\ h_dirty = {}
    /\ h_calls = << >>
    /\ h_writes = 0
    /\ h_prev_ok = FALSE
    /\ h_file = fr_json
    /\ h_before = EmptyStore
    /\ h_done = << >>
    /\ h_raw = EmptyText

\* line 171 with the stub: the stripped answer of the stub
TranslateStub ==
    /\ pc = "translate"
    /\ \E content \in StubResponses(masked_text) :
          /\ masked_translation' = Strip(content)
          /\ h_raw' = Strip(content)
    /\ h_calls' = Append(h_calls, key)
    /\ pc' = "glossary"
    /\ UNCHANGED <<source_data, glossary_csv, GLOSSARY, fr_json, existing_fr,
                   keys_to_translate, key, en_text, masked_text, mapping, final_text,
                   error, run, h_loaded, h_dirty, h_writes, h_prev_ok, h_file,
                   h_before, h_done>>

ScenarioNext ==
    \/ Load
    \/ Mask
    \/ TranslateStub
    \/ ApplyGlossary
    \/ QA
    \/ Restore
    \/ Save
    \/ Write
    \/ Rerun

SpecScenario == ScenarioInit /\ [][ScenarioNext]_vars

\* "Hello <VAR1>, you have <VAR2> items"
GreetingMasked ==
    << "H", "e", "l", "l", "o", " ", "<", "V", "A", "R", "1", ">", ",", " ",
       "y", "o", "u", " ", "h", "a", "v", "e", " ", "<", "V", "A", "R", "2",
       ">", " ", "i", "t", "e", "m", "s" >>

\* "Bonjour {name}, vous avez {count} articles"
GreetingFinal ==
    << "B", "o", "n", "j", "o", "u", "r", " ", "{", "n", "a", "m", "e", "}",
       ",", " ", "v", "o", "u", "s", " ", "a", "v", "e", "z", " ", "{", "c",
       "o", "u", "n", "t", "}", " ", "a", "r", "t", "i", "c", "l", "e", "s" >>

\* the scenario of C12: empty prior store, empty glossary, the stub answered
\* with the reply
GreetingScenario ==
    /\ h_file.data = EmptyStore
    /\ glossary_csv = << >>
    /\ h_raw = GreetingReply

\* C12: end-to-end scenario. With the catalog {greeting: "Hello {name}, you
\* have {count} items"}, an empty prior store, an empty glossary and a
\* translator answering "Bonjour <VAR1>, vous avez <VAR2> articles" to the
\* masked input "Hello <VAR1>, you have <VAR2> items", the run does not fail
\* and persists exactly {greeting: "Bonjour {name}, vous avez {count}
\* articles", "__source__:greeting": "Hello {name}, you have {count} items"}.
C12_Scenario ==
    GreetingScenario =>
        /\ masked_text = GreetingMasked
        /\ pc # "failed"
        /\ pc = "done" =>
              fr_json = [exists |-> TRUE,
                         data |-> ("greeting" :> GreetingFinal
                                   @@ "__source__:greeting" :> GreetingSource)]

\* the run of the scenario has ended and written fr.json
C12_Witness ==
    /\ GreetingScenario
    /\ pc = "done"
    /\ h_writes = 1

----------------------------------------------------------------------------
(* Properties of the glossary step and of the loop *)

\* the glossary has been applied to the translation of the current key
GlossaryApplied == pc \in {"qa", "restore", "save"} \/ QAFailed

\* C13: glossary inertness toward tokens. Whatever the glossary table and the
\* masked translation, apply_glossary leaves the <VARk> tokens as they are:
\* the token set after the glossary is the token set of the translator's
\* output.
C13_GlossaryInert ==
    GlossaryApplied =>
        extract_placeholders(masked_translation) = extract_placeholders(h_raw)


\* lines 167-186 for one dirty entry <<key, en_text>>, when llm_translate
\* returns reply: the store after the entry, ok = FALSE when QA raises
LoopBody(store, entry, reply) ==
    LET m == mask_placeholders(entry[2])
        translation == apply_glossary(reply, GLOSSARY)
    IN  IF QAPasses(extract_placeholders(m.masked_text),
                    extract_placeholders(translation))
        THEN [ok |-> TRUE,
              store |-> SaveResult(store, entry[1],
                                   restore_placeholders(translation, m.mapping),
                                   entry[2])]
        ELSE [ok |-> FALSE, store |-> store]

RECURSIVE LoopRun(_, _, _)
\* the loop of lines 166-186 over the dirty entries, in their order, with a
\* translator that answers translator[masked] to the masked text
LoopRun(entries, store, translator) ==
    IF entries = << >> THEN [ok |-> TRUE, store |-> store]
    ELSE LET first == LoopBody(store, Head(entries),
                               translator[mask_placeholders(Head(entries)[2]).masked_text])
         IN  IF first.ok THEN LoopRun(Tail(entries), first.store, translator)
             ELSE first

\* the masked texts of the entries
MaskedTexts(entries) ==
    {mask_placeholders(entries[i][2]).masked_text : i \in 1..Len(entries)}

\* the deterministic translators: one stripped response for each masked text
Translators(entries) ==
    {t \in [MaskedTexts(entries) ->
               UNION {{Strip(c) : c \in Responses(m)} : m \in MaskedTexts(entries)}] :
        \A m \in MaskedTexts(entries) : t[m] \in {Strip(c) : c \in Responses(m)}}

\* the orders in which the entries can stand in en.json
Orders(entries) ==
    {o \in [1..Len(entries) -> Range(entries)] :
        \A i, j \in 1..Len(entries) : i # j => o[i] # o[j]}

\* C14: key independence. Processing a dirty key changes its translation
\* entry and its snapshot entry and no other entry of the store, and for a
\* deterministic translator the store at the end of a successful loop is the
\* same in whatever order the dirty keys are processed, also when one catalog
\* key is the "__source__:" marker of another.
C14_KeyIndependence ==
    /\ (pc = "loop" /\ h_done # << >>) =>
          \A k \in (DOMAIN existing_fr) \cup (DOMAIN h_before) :
              k \notin {key, Marker(key)} => Get(existing_fr, k) = Get(h_before, k)
    /\ (pc = "loop" /\ h_calls = << >>) =>
          \A translator \in Translators(keys_to_translate) :
              \A order \in Orders(keys_to_translate) :
                  LET inOrder == LoopRun(keys_to_translate, existing_fr, translator)
                      reordered == LoopRun(order, existing_fr, translator)
                  IN  (inOrder.ok /\ reordered.ok) => inOrder.store = reordered.store


\* the catalog key k is new or changed against the store loaded by this run
DirtyAtLoad(k) ==
    /\ k \in SourceKeys
    /\ \/ k \notin DOMAIN h_loaded
       \/ Marker(k) \notin DOMAIN h_loaded
       \/ h_loaded[Marker(k)] # SourceText(k)

\* C15: only the delta is translated. The dirty keys are computed once, before
\* any call of the translator: the keys waiting and the keys merged are always
\* the delta of the load. In a run the translator is called at most once for
\* a key, only for catalog keys that were dirty at the load, and, when the
\* run succeeds, once for each of them.
C15_OnlyDelta ==
    /\ pc = "load" => h_calls = << >>
    /\ pc # "load" =>
          /\ h_dirty = {k \in SourceKeys : DirtyAtLoad(k)}
          /\ DirtyKeys(keys_to_translate) \cup Range(h_done) = h_dirty
          /\ DirtyKeys(keys_to_translate) \cap Range(h_done) = {}
          /\ \A i, j \in 1..Len(h_calls) : i # j => h_calls[i] # h_calls[j]
          /\ \A k \in Range(h_calls) : DirtyAtLoad(k)
          /\ pc = "done" =>
                /\ Range(h_calls) = {k \in SourceKeys : DirtyAtLoad(k)}
                /\ Len(h_calls) = Cardinality(h_dirty)

\* a successful run that translated one catalog key and left another alone
C15_Witness ==
    /\ pc = "done"
    /\ h_calls # << >>
    /\ SourceKeys \ Range(h_calls) # {}


\* the steps of one dirty key, as the value each step leaves behind
InBody == pc \in {"translate", "glossary", "qa", "restore", "save"}

StepValues ==
    /\ InBody \/ QAFailed =>
          /\ masked_text = mask_placeholders(en_text).masked_text
          /\ mapping = mask_placeholders(en_text).mapping
          /\ existing_fr = h_before
    /\ InBody =>
          /\ key = Head(keys_to_translate)[1]
          /\ en_text = Head(keys_to_translate)[2]
    /\ pc = "translate" => h_calls = h_done
    /\ pc \in {"glossary", "qa", "restore", "save"} \/ QAFailed =>
          h_calls = Append(h_done, key)
    /\ pc = "glossary" => masked_translation = h_raw
    /\ pc \in {"qa", "restore", "save"} \/ QAFailed =>
          masked_translation = apply_glossary(h_raw, GLOSSARY)
    /\ pc \in {"restore", "save"} => SrcVars = TgtVars
    /\ QAFailed => SrcVars # TgtVars
    /\ pc = "save" => final_text = restore_placeholders(masked_translation, mapping)
    /\ pc = "loop" /\ h_done # << >> =>
          /\ key = h_done[Len(h_done)]
          /\ h_calls = h_done
          /\ SrcVars = TgtVars
          /\ masked_translation = apply_glossary(h_raw, GLOSSARY)
          /\ existing_fr = SaveResult(h_before, key,
                 restore_placeholders(masked_translation, mapping), en_text)

\* the steps follow one another in the order of the loop body; the store is
\* assigned by the last step only and the translator is called by the second
StepOrder ==
    /\ pc' # pc =>
          <<pc, pc'>> \in {<<"load", "loop">>, <<"loop", "translate">>,
                           <<"translate", "glossary">>, <<"translate", "failed">>,
                           <<"glossary", "qa">>, <<"qa", "restore">>,
                           <<"qa", "failed">>, <<"restore", "save">>,
                           <<"save", "loop">>, <<"loop", "done">>,
                           <<"done", "load">>, <<"failed", "load">>}
    /\ existing_fr' # existing_fr => pc \in {"load", "save", "done", "failed"}
    /\ h_calls' # h_calls => pc \in {"translate", "done", "failed"}
    /\ masked_translation' # masked_translation =>
          pc \in {"translate", "glossary", "done", "failed"}
    /\ final_text' # final_text => pc \in {"restore", "done", "failed"}

\* C16: for every dirty key the steps are mask, translate, apply glossary,
\* validate the token sets, unmask, write to the store, in this order. The
\* validation compares the tokens of the masked source with the tokens of the
\* translation after the glossary; the placeholders are restored and the store
\* is written only when that validation has passed.
C16_StepOrder == []StepValues /\ [][StepOrder]_vars

\* a reply that has the tokens of the source is rejected, because the
\* validation reads it after the glossary has rewritten it; nothing is stored
C16_Witness ==
    /\ QAFailed
    /\ masked_translation # h_raw
    /\ extract_placeholders(h_raw) = extract_placeholders(masked_text)
    /\ existing_fr = h_before


-----------------------------------------------------------------------------
(* The glossary alone: glossary.csv files of a few rows, loaded and applied *)

MaxRows == 3

\* cells of glossary.csv: a term, a term that holds the other, an empty cell
GlossarySources == {<<"a">>, <<"a", "b">>, EmptyText}
GlossaryTargets == {<<"a", "b">>, <<"b">>, EmptyText}
GlossaryRows == GlossarySources \X GlossaryTargets
GlossaryTexts == {<<"a">>, <<"a", "b">>, <<"b", "a">>, <<"a", "a", "b">>}

\* before line 69: glossary.csv is on disk, the text is at hand
GlossaryInit ==
    /\ source_data = << >>
    /\ glossary_csv \in SeqsUpTo(GlossaryRows, MaxRows)
    /\ GLOSSARY = << >>
    /\ fr_json = [exists |-> FALSE, data |-> EmptyStore]
    /\ existing_fr = EmptyStore
    /\ keys_to_translate = << >>
    /\ pc = "start"
    /\ key = ""
    /\ en_text = EmptyText
    /\ masked_text = EmptyText
    /\ mapping = << >>
    /\ h_raw \in GlossaryTexts
    /\ masked_translation = h_raw
    /\ final_text = EmptyText
    /\ error = NoError
    /\ run = 1
    /\ h_loaded = EmptyStore
    /\ h_dirty = {}
    /\ h_calls = << >>
    /\ h_writes = 0
    /\ h_prev_ok = FALSE
    /\ h_file = fr_json
    /\ h_before = EmptyStore
    /\ h_done = << >>

\* line 69
LoadGlossary ==
    /\ pc = "start"
    /\ GLOSSARY' = load_glossary(glossary_csv)
    /\ pc' = "glossary"
    /\ UNCHANGED <<source_data, glossary_csv, fr_json, existing_fr,
                   keys_to_translate, key, en_text, masked_text, mapping,
                   masked_translation, final_text, error, run, h_loaded, h_dirty,
                   h_calls, h_writes, h_prev_ok, h_file, h_before, h_done, h_raw>>

\* apply_glossary called once more on the same text with the same table
ApplyGlossaryAgain ==
    /\ pc = "qa"
    /\ final_text' = apply_glossary(h_raw, GLOSSARY)
    /\ pc' = "applied"
    /\ UNCHANGED <<source_data, glossary_csv, GLOSSARY, fr_json, existing_fr,
                   keys_to_translate, key, en_text, masked_text, mapping,
                   masked_translation, error, run, h_loaded, h_dirty,
                   h_calls, h_writes, h_prev_ok, h_file, h_before, h_done, h_raw>>

GlossaryNext ==
    \/ LoadGlossary
    \/ ApplyGlossary
    \/ ApplyGlossaryAgain

SpecGlossary == GlossaryInit /\ [][GlossaryNext]_vars

\* the rows of a file as single entries: a source term stands where it is
\* listed first and carries the target it is listed with last
FirstListed(rows) ==
    SelectSeq([i \in 1..Len(rows) |-> <<i, rows[i][1]>>],
              LAMBDA p : \A j \in 1..(p[1] - 1) : rows[j][1] # p[2])

LastTarget(rows, source) ==
    LET last == CHOOSE j \in 1..Len(rows) :
                    /\ rows[j][1] = source
                    /\ \A l \in (j + 1)..Len(rows) : rows[l][1] # source
    IN  rows[last][2]

SingleEntries(rows) ==
    [i \in 1..Len(FirstListed(rows)) |->
        <<FirstListed(rows)[i][2], LastTarget(rows, FirstListed(rows)[i][2])>>]

RECURSIVE FoldReplace(_, _)
\* the left fold of replace-all over a table
FoldReplace(text, table) ==
    IF table = << >> THEN text
    ELSE FoldReplace(Replace(text, Head(table)[1], Head(table)[2]), Tail(table))

GlossaryWasApplied == pc \in {"qa", "applied"}

\* C17: apply_glossary(text, table) is the left fold, in table order, of the
\* literal replace-all of each source term by its target term, so that a later
\* entry rewrites what an earlier entry put in; a source term listed more than
\* once is one entry with the last listed target; the same table applied to
\* the same text again gives the same output.
C17_GlossaryFold ==
    /\ pc # "start" => GLOSSARY = SingleEntries(glossary_csv)
    /\ GlossaryWasApplied =>
          masked_translation = FoldReplace(h_raw, SingleEntries(glossary_csv))
    /\ pc = "applied" => final_text = masked_translation

\* a file that lists its first source term twice, with two targets, and whose
\* second entry rewrites text that only the first entry brought in
C17_Witness ==
    /\ pc = "applied"
    /\ Len(glossary_csv) = 3
    /\ Len(GLOSSARY) = 2
    /\ glossary_csv[1][1] = glossary_csv[3][1]
    /\ glossary_csv[1][2] # glossary_csv[3][2]
    /\ GLOSSARY[2][1] # EmptyText
    /\ ~Contains(h_raw, GLOSSARY[2][1])
    /\ Contains(Replace(h_raw, GLOSSARY[1][1], GLOSSARY[1][2]), GLOSSARY[2][1])
    /\ masked_translation # Replace(h_raw, GLOSSARY[1][1], GLOSSARY[1][2])


\* a key has passed QA and been written: the loop is back at its head
KeyWritten == pc = "loop" /\ h_done # << >>

\* C18: no residual tokens. The translation written for a key that passed QA
\* holds no "<VARk>" token: every token of the validated masked translation
\* has an entry in the mapping of the key and is replaced before the write.
C18_NoResidualTokens ==
    KeyWritten =>
        /\ \A t \in extract_placeholders(masked_translation) :
              \E i \in 1..Len(mapping) : mapping[i][1] = t
        /\ extract_placeholders(existing_fr[key]) = {}

====
